---- MODULE Spec2Model ----
(***************************************************************************)
(* Model of yt_dlp/extractor/teachable.py: the Teachable lecture extractor *)
(* (TeachableIE), the course playlist extractor (TeachableCourseIE) and    *)
(* the login state machine they inherit from TeachableBaseIE.              *)
(*                                                                         *)
(* Text is modelled by what the regular expressions of the source can see: *)
(*   - a URL is a record [pfx, scheme, host, path]: pfx counts leading     *)
(*     "teachable:" markers, host is the sequence of dot-separated labels, *)
(*     path is the sequence of "/"-separated segments after the host;      *)
(*   - an HTML page is a record of the elements and markers the source     *)
(*     searches for; element text is a sequence of tokens (words, tags,    *)
(*     whitespace);                                                        *)
(*   - an optional value (Python None or a value) is a sequence of length  *)
(*     0 or 1.                                                             *)
(***************************************************************************)
EXTENDS Integers, Sequences, FiniteSets, TLC

VARIABLES
    logged_in,        \* self._logged_in of each extractor instance
    creds,            \* stored credentials, by netrc machine
    sign_in_fetches,  \* per site: GETs of https://<site>/sign_in
    login_posts,      \* per site: credential POSTs
    authed,           \* sites whose login handshake set a _logged_in flag
    last              \* observable record of the last call

vars == <<logged_in, creds, sign_in_fetches, login_posts, authed, last>>

\* Python None / a value
None == <<>>
Some(x) == <<x>>

\* ---------------------------------------------------------------- bounds
\* longest URL path (in segments) drawn for URL classification
MaxPath == 4
\* network login attempts (sign-in page fetches) allowed per site
MaxAttempts == 2
\* section-title elements on a lecture page
MaxTitles == 3
\* largest one-digit data-ss-position value on a lecture page
MaxPos == 4
\* section-item list entries on a course page
MaxEntries == 3

\* ------------------------------------------------------- TeachableBaseIE
URL_PREFIX == "teachable:"

\* _SITES: hostname (as labels) -> credential namespace
SITES ==
    (<<"v1", "upskillcourses", "com">> :> <<"upskill">>)
    @@ (<<"gns3", "teachable", "com">> :> <<"gns3">>)
    @@ (<<"academyhacker", "com">> :> <<"academyhacker">>)
    @@ (<<"stackskills", "com">> :> <<"stackskills">>)
    @@ (<<"market", "saleshacker", "com">> :> <<"saleshacker">>)
    @@ (<<"learnability", "org">> :> <<"learnability">>)
    @@ (<<"edurila", "com">> :> <<"edurila">>)
    @@ (<<"courses", "workitdaily", "com">> :> <<"workitdaily">>)

\* the extractor instances of one process
IEs == {"Teachable", "TeachableCourse"}

\* ------------------------------------------------------------- URL shapes
HttpSchemes == {"http://", "https://"}
Schemes == {"https://", "ftp://"}
KnownHost == <<"gns3", "teachable", "com">>
OtherHost == <<"learn", "vrdev", "school">>
Hosts == {KnownHost, <<"www">> \o KnownHost, OtherHost}
Segments == {"courses", "p", "enrolled", "lectures", "slug", "42", "", "?x"}
\* segments that begin with a digit (\d+ matches a prefix of them)
DigitLed == {"42", "7"}
\* segments that begin with a character of [^/?#&]
IdLed == {"courses", "p", "enrolled", "lectures", "slug", "42", "7"}

RECURSIVE SeqsUpTo(_, _)
SeqsUpTo(S, n) ==
    IF n = 0 THEN {<<>>}
    ELSE LET shorter == SeqsUpTo(S, n - 1)
         IN shorter \cup {Append(s, x) : s \in {t \in shorter : Len(t) = n - 1}, x \in S}

Urls ==
    [pfx : 0..1, scheme : Schemes, host : Hosts, path : SeqsUpTo(Segments, MaxPath)]

NoMatch == [ok |-> FALSE, site |-> None, id |-> None]

\* the alternation common to both _VALID_URL patterns:
\*   teachable:https?://(?P<site_t>[^/]+) | https?://(?:www\.)?(?P<site>known)
\* the value is  mobj.group('site') or mobj.group('site_t'), or None
SiteOf(url) ==
    IF url.scheme \notin HttpSchemes THEN None
    ELSE IF url.pfx = 1
         THEN IF url.host # <<>> THEN Some(url.host) ELSE None
    ELSE IF url.pfx = 0
         THEN IF url.host \in DOMAIN SITES THEN Some(url.host)
              ELSE IF url.host # <<>> /\ Head(url.host) = "www"
                      /\ Tail(url.host) \in DOMAIN SITES
                   THEN Some(Tail(url.host))
                   ELSE None
    ELSE None

\* TeachableIE._VALID_URL:  <site>/courses/[^/]+/lectures/(?P<id>\d+)
TeachableIE_VALID_URL(url) ==
    LET p == url.path
    IN IF SiteOf(url) # None /\ Len(p) >= 4 /\ p[1] = "courses" /\ p[2] # ""
          /\ p[3] = "lectures" /\ p[4] \in DigitLed
       THEN [ok |-> TRUE, site |-> SiteOf(url), id |-> Some(p[4])]
       ELSE NoMatch

\* TeachableCourseIE._VALID_URL:
\*   <site>/(?:courses|p)/(?:enrolled/)?(?P<id>[^/?#&]+)
TeachableCourseIE_VALID_URL(url) ==
    LET p == url.path
    IN IF SiteOf(url) # None /\ Len(p) >= 2 /\ p[1] \in {"courses", "p"}
       THEN IF p[2] = "enrolled" /\ Len(p) >= 3 /\ p[3] \in IdLed
            THEN [ok |-> TRUE, site |-> SiteOf(url), id |-> Some(p[3])]
            ELSE IF p[2] \in IdLed
                 THEN [ok |-> TRUE, site |-> SiteOf(url), id |-> Some(p[2])]
                 ELSE NoMatch
       ELSE NoMatch

\* InfoExtractor.suitable, as inherited by TeachableIE
TeachableIE_suitable(url) == TeachableIE_VALID_URL(url).ok

\* a course matcher that does not defer to the lecture matcher
CourseSuitableNoDefer(url) == TeachableCourseIE_VALID_URL(url).ok

\* TeachableCourseIE.suitable
TeachableCourseIE_suitable(url) ==
    IF TeachableIE_suitable(url) THEN FALSE ELSE TeachableCourseIE_VALID_URL(url).ok

\* ------------------------------------------------------------ utils (text)
Tags == {"<b>", "</b>", "<br>"}
Blank == " "

RECURSIVE lstrip(_)
lstrip(s) == IF s # <<>> /\ Head(s) = Blank THEN lstrip(Tail(s)) ELSE s

RECURSIVE rstrip(_)
rstrip(s) ==
    IF s # <<>> /\ s[Len(s)] = Blank THEN rstrip(SubSeq(s, 1, Len(s) - 1)) ELSE s

\* utils.clean_html: drop the tags, strip surrounding whitespace
clean_html(html) == rstrip(lstrip(SelectSeq(html, LAMBDA t : t \notin Tags)))

\* utils.strip_or_none: v.strip() or None, as an optional value
strip_or_none(v) == IF rstrip(lstrip(v)) = <<>> THEN None ELSE Some(rstrip(lstrip(v)))

\* int() of a string of decimal digits (a sequence of digit values)
RECURSIVE DigitsValue(_)
DigitsValue(digits) ==
    IF digits = <<>> THEN 0
    ELSE 10 * DigitsValue(SubSeq(digits, 1, Len(digits) - 1)) + digits[Len(digits)]

\* utils.int_or_none on the optional text of a (\d+) group
int_or_none(v) == IF v = None THEN None ELSE Some(DigitsValue(v[1]))

\* list[i] of Python for an int i (0-based, a negative i counts from the end):
\* the element, or None where Python raises IndexError
PyIndex(list, i) ==
    LET n == Len(list)
        j == IF i < 0 THEN i + n ELSE i
    IN IF 0 <= j /\ j < n THEN Some(list[j + 1]) ELSE None

\* ----------------------------------------------------- netrc / credentials
ModelSites == {KnownHost, OtherHost}

\* netrc_machine=self._SITES.get(site, site)
NetrcMachine(site) == IF site \in DOMAIN SITES THEN SITES[site] ELSE site

Machines == {NetrcMachine(s) : s \in ModelSites}

\* InfoExtractor._get_login_info: username is None iff nothing is stored
HasLoginInfo(machine) == creds[machine]

\* ------------------------------------------------------------------ pages
\* the three patterns of is_logged
LoggedPatterns == {"class=user-signout", "href=/sign_out", "Log out<"}
LoggedSets == {{}} \cup {{p} : p \in LoggedPatterns}

\* what the sign-in page shows
LoginPages == [logged : LoggedSets]

\* raw inner HTML of an auth-flash-error element
FlashMessages == {<<Blank, "Invalid email or password", "<br>">>}

\* what the response to the credential POST shows
Responses ==
    [privacy : BOOLEAN, logged : LoggedSets,
     flash : {None} \cup {Some(m) : m \in FlashMessages}]

\* is_logged (nested in _login)
is_logged(webpage) == \E p \in LoggedPatterns : p \in webpage.logged

NoError == None
Error(kind, msg) == Some([kind |-> kind, msg |-> msg])

\* ------------------------------------------------------------------ _login
\* lines 85-100: what the POST response decides
\* the same decision with the logged-in test made before the privacy test
PostOutcomeLoggedFirst(response) ==
    IF is_logged(response)
    THEN [outcome |-> "success", logged_in |-> TRUE, err |-> NoError]
    ELSE IF response.privacy
    THEN [outcome |-> "privacy", logged_in |-> FALSE,
          err |-> Error("PrivacyPolicyBlock", <<>>)]
    ELSE IF response.flash # None
    THEN [outcome |-> "invalid", logged_in |-> FALSE,
          err |-> Error("InvalidCredentials", clean_html(response.flash[1]))]
    ELSE [outcome |-> "failed", logged_in |-> FALSE, err |-> Error("LoginFailed", <<>>)]

\* the same decision with the flag set before the flash-error test
PostOutcomeMarkEarly(response) ==
    IF response.privacy
    THEN [outcome |-> "privacy", logged_in |-> FALSE,
          err |-> Error("PrivacyPolicyBlock", <<>>)]
    ELSE IF is_logged(response)
    THEN [outcome |-> "success", logged_in |-> TRUE, err |-> NoError]
    ELSE IF response.flash # None
    THEN [outcome |-> "invalid", logged_in |-> TRUE,
          err |-> Error("InvalidCredentials", clean_html(response.flash[1]))]
    ELSE [outcome |-> "failed", logged_in |-> FALSE, err |-> Error("LoginFailed", <<>>)]

PostOutcome(response) ==
    IF response.privacy
    THEN [outcome |-> "privacy", logged_in |-> FALSE,
          err |-> Error("PrivacyPolicyBlock", <<>>)]
    ELSE IF is_logged(response)
    THEN [outcome |-> "success", logged_in |-> TRUE, err |-> NoError]
    ELSE IF response.flash # None
    THEN [outcome |-> "invalid", logged_in |-> FALSE,
          err |-> Error("InvalidCredentials", clean_html(response.flash[1]))]
    ELSE [outcome |-> "failed", logged_in |-> FALSE, err |-> Error("LoginFailed", <<>>)]

\* _login without the early return on self._logged_in
LoginNoFlagCheck(flag, has_info, login_page, response) ==
    IF ~has_info
    THEN [outcome |-> "anonymous", logged_in |-> flag, fetched |-> FALSE,
          posted |-> FALSE, err |-> NoError]
    ELSE IF is_logged(login_page)
    THEN [outcome |-> "restored", logged_in |-> TRUE, fetched |-> TRUE,
          posted |-> FALSE, err |-> NoError]
    ELSE [fetched |-> TRUE, posted |-> TRUE] @@ PostOutcome(response)

\* TeachableBaseIE._login(site): flag is self._logged_in on entry, has_info is
\* whether _get_login_info found a username, login_page and response are what
\* the site serves if asked.  The value tells what was done: logged_in is the
\* flag on exit, fetched/posted whether the sign-in page was downloaded and
\* the credentials were posted, err the ExtractorError raised (or None).
Login(flag, has_info, login_page, response) ==
    IF flag
    THEN [outcome |-> "skipped", logged_in |-> flag, fetched |-> FALSE,
          posted |-> FALSE, err |-> NoError]
    ELSE IF ~has_info
    THEN [outcome |-> "anonymous", logged_in |-> flag, fetched |-> FALSE,
          posted |-> FALSE, err |-> NoError]
    ELSE IF is_logged(login_page)
    THEN [outcome |-> "restored", logged_in |-> TRUE, fetched |-> TRUE,
          posted |-> FALSE, err |-> NoError]
    ELSE [fetched |-> TRUE, posted |-> TRUE] @@ PostOutcome(response)

\* ------------------------------------------------------------ lecture page
\* the five locked-content patterns of _create_hotmart_url
LockedPatterns ==
    {"class=lecture-contents-locked", ">Lecture contents locked", "id=lecture-locked",
     "class=lesson-locked", ">LESSON LOCKED<"}
LockedSets == {{}} \cup {{p} : p \in LockedPatterns}

\* the hotmart_video_player element: absent, or its attributes
Containers ==
    {None, Some([attachment_id |-> None]), Some([attachment_id |-> Some("att-1")])}

\* raw inner HTML of section-title elements
RawTitles ==
    {<<"Welcome">>, <<"<b>", "Setup", "</b>", Blank>>, <<"Advanced">>, <<Blank, "<br>">>}

\* the <li data-lecture-id=ID> element: absent, or its data-ss-position digits
\* (absent, one digit, or "02")
SectionItems ==
    {None, Some([position |-> None]), Some([position |-> Some(<<0, 2>>)])}
        \cup {Some([position |-> Some(<<k>>)]) : k \in 0..MaxPos}

LecturePages ==
    [container : Containers, locked : LockedSets, og_title : {Some(<<"Overview">>)},
     section_item : SectionItems, titles : SeqsUpTo(RawTitles, MaxTitles)]

\* what GET https://<site>/api/v2/hotmart/private_video returns
HotmartData ==
    [video_id |-> "vid", signature |-> "sig", teachable_application_key |-> "key"]

\* _create_hotmart_url with the locked-content test made before the container test
CreateHotmartUrlLockedFirst(webpage) ==
    IF webpage.locked # {}
    THEN [err |-> Error("LoginRequired", <<>>), api_called |-> FALSE, url |-> None]
    ELSE IF webpage.container = None
    THEN [err |-> Error("ExtractionFailed", <<>>), api_called |-> FALSE, url |-> None]
    ELSE IF webpage.container[1].attachment_id = None
    THEN [err |-> Error("KeyError", <<>>), api_called |-> FALSE, url |-> None]
    ELSE [err |-> NoError, api_called |-> TRUE,
          url |-> Some(<<"https://player.hotmart.com/embed/", HotmartData.video_id,
                         "?signature=", HotmartData.signature,
                         "&token=", HotmartData.teachable_application_key>>)]

\* TeachableIE._create_hotmart_url
CreateHotmartUrl(webpage) ==
    IF webpage.container = None
    THEN IF \E p \in LockedPatterns : p \in webpage.locked
         THEN [err |-> Error("LoginRequired", <<>>), api_called |-> FALSE, url |-> None]
         ELSE [err |-> Error("ExtractionFailed", <<>>), api_called |-> FALSE, url |-> None]
    ELSE IF webpage.container[1].attachment_id = None
    THEN [err |-> Error("KeyError", <<>>), api_called |-> FALSE, url |-> None]
    ELSE [err |-> NoError, api_called |-> TRUE,
          url |-> Some(<<"https://player.hotmart.com/embed/", HotmartData.video_id,
                         "?signature=", HotmartData.signature,
                         "&token=", HotmartData.teachable_application_key>>)]

\* the section scan restarted after an empty title instead of stopped
RECURSIVE ScanSectionsRestart(_, _, _)
ScanSectionsRestart(raw, i, sections) ==
    IF i > Len(raw) THEN sections
    ELSE LET section == strip_or_none(clean_html(raw[i]))
         IN IF section = None
            THEN ScanSectionsRestart(raw, i + 1, <<>>)
            ELSE ScanSectionsRestart(raw, i + 1, Append(sections, section[1]))

\* lines 214-221: the for loop over the section-title elements, from the i-th
RECURSIVE ScanSections(_, _, _)
ScanSections(raw, i, sections) ==
    IF i > Len(raw) THEN sections
    ELSE LET section == strip_or_none(clean_html(raw[i]))
         IN IF section = None
            THEN <<>>
            ELSE ScanSections(raw, i + 1, Append(sections, section[1]))

\* lines 204-223: chapter and chapter_number of a lecture page; sections is the
\* list as the loop left it, err the IndexError of sections[chapter_number - 1]
ChapterInfo(webpage) ==
    LET chapter_number ==
            IF webpage.section_item = None THEN None
            ELSE int_or_none(webpage.section_item[1].position)
        sections ==
            IF chapter_number = None THEN <<>>
            ELSE ScanSections(webpage.titles, 1, <<>>)
    IN IF chapter_number # None /\ chapter_number[1] <= Len(sections)
       THEN IF PyIndex(sections, chapter_number[1] - 1) = None
            THEN [chapter |-> None, chapter_number |-> chapter_number,
                  sections |-> sections, err |-> Error("IndexError", <<>>)]
            ELSE [chapter |-> PyIndex(sections, chapter_number[1] - 1),
                  chapter_number |-> chapter_number,
                  sections |-> sections, err |-> NoError]
       ELSE [chapter |-> None, chapter_number |-> chapter_number,
             sections |-> sections, err |-> NoError]

\* url[len(self._URL_PREFIX):] when url.startswith(self._URL_PREFIX)
StripPrefix(url) == IF url.pfx >= 1 THEN [url EXCEPT !.pfx = @ - 1] ELSE url

Bump(f, site, yes) == IF yes THEN [f EXCEPT ![site] = @ + 1] ELSE f

\* TeachableIE._real_extract(url), with what the site serves: its sign-in
\* page, its answer to the credential POST, and the lecture page
LectureExtract(url, login_page, response, webpage) ==
    LET mobj == TeachableIE_VALID_URL(url)
        site == mobj.site[1]
        lg == Login(logged_in["Teachable"], HasLoginInfo(NetrcMachine(site)),
                    login_page, response)
        hm == CreateHotmartUrl(webpage)
        ch == ChapterInfo(webpage)
        err == IF lg.err # NoError THEN lg.err
               ELSE IF hm.err # NoError THEN hm.err
               ELSE ch.err
        seen == lg.err = NoError
        parsed == seen /\ hm.err = NoError
    IN /\ mobj.ok
       /\ logged_in' = [logged_in EXCEPT !["Teachable"] = lg.logged_in]
       /\ sign_in_fetches' = Bump(sign_in_fetches, site, lg.fetched)
       /\ login_posts' = Bump(login_posts, site, lg.posted)
       /\ authed' = IF lg.logged_in /\ ~logged_in["Teachable"]
                    THEN authed \cup {site} ELSE authed
       /\ last' = [op |-> "lecture", ie |-> "Teachable", url |-> url, site |-> site,
                   login |-> lg.outcome,
                   login_page |-> IF lg.fetched THEN Some(login_page) ELSE None,
                   response |-> IF lg.posted THEN Some(response) ELSE None,
                   fetched |-> IF seen THEN Some(StripPrefix(url)) ELSE None,
                   webpage |-> IF seen THEN Some(webpage) ELSE None,
                   api_called |-> seen /\ hm.api_called,
                   sections |-> IF parsed THEN ch.sections ELSE <<>>,
                   err |-> err,
                   result |-> IF err # NoError THEN None
                              ELSE Some([url |-> hm.url[1], video_id |-> mobj.id[1],
                                         video_title |-> webpage.og_title,
                                         chapter |-> ch.chapter,
                                         chapter_number |-> ch.chapter_number])]
       /\ UNCHANGED creds

\* ------------------------------------------------------------- course page
\* an href that is a rooted relative path
Relative(path) == [pfx |-> 0, scheme |-> "", host |-> <<>>, path |-> path]

\* href values of the anchors of section-item entries
Hrefs ==
    {Relative(<<"courses", "slug", "lectures", "42">>),
     [pfx |-> 0, scheme |-> "https://", host |-> OtherHost,
      path |-> <<"courses", "other", "lectures", "7">>]}

\* duration text "m:s" as the numbers of digits before and after the colon
Durations == {None, Some(<<1, 1>>), Some(<<2, 2>>)}

\* a <li class="... section-item ..."> element
SectionItemEntries ==
    [play : BOOLEAN, duration : Durations, href : {None} \cup {Some(h) : h \in Hrefs},
     name : {Some(<<Blank, "Intro">>)}]

CoursePages ==
    [entries : SeqsUpTo(SectionItemEntries, MaxEntries),
     course_title : {Some(<<"The Course">>)}]

\* re.search(r'\d{1,2}:\d{2}', li)
HasDuration(li) ==
    li.duration # None /\ li.duration[1][1] >= 1 /\ li.duration[1][2] >= 2

\* utils.urljoin(base, path) for an absolute or rooted relative path
urljoin(base, path) ==
    IF path.scheme \in HttpSchemes THEN path ELSE [base EXCEPT !.path = path.path]

\* self._search_regex(r'/lectures/(\d+)', lecture_url, default=None), from the i-th segment
RECURSIVE LectureIdFrom(_, _)
LectureIdFrom(path, i) ==
    IF i + 1 > Len(path) THEN None
    ELSE IF path[i] = "lectures" /\ path[i + 1] \in DigitLed THEN Some(path[i + 1])
    ELSE LectureIdFrom(path, i + 1)

\* the url_result of one entry with the prefix put on whether or not the course
\* URL had it
EntryResultAlwaysPrefixed(li, url_base, prefixed) ==
    LET lecture_url == li.href[1]
        joined == urljoin(url_base, lecture_url)
    IN [url |-> [joined EXCEPT !.pfx = @ + 1], ie_key |-> "Teachable",
        id |-> LectureIdFrom(lecture_url.path, 1),
        title |-> IF li.name = None THEN None ELSE Some(clean_html(li.name[1]))]

\* lines 301-308: the url_result of one entry
EntryResult(li, url_base, prefixed) ==
    LET lecture_url == li.href[1]
        joined == urljoin(url_base, lecture_url)
        entry_url == IF prefixed THEN [joined EXCEPT !.pfx = @ + 1] ELSE joined
    IN [url |-> entry_url, ie_key |-> "Teachable",
        id |-> LectureIdFrom(lecture_url.path, 1),
        title |-> IF li.name = None THEN None ELSE Some(clean_html(li.name[1]))]

\* the loop with the marker test left out
RECURSIVE CourseEntriesUnfiltered(_, _, _, _, _)
CourseEntriesUnfiltered(lis, i, url_base, prefixed, entries) ==
    IF i > Len(lis) THEN entries
    ELSE IF lis[i].href = None
    THEN CourseEntriesUnfiltered(lis, i + 1, url_base, prefixed, entries)
    ELSE CourseEntriesUnfiltered(lis, i + 1, url_base, prefixed,
                                 Append(entries, EntryResult(lis[i], url_base, prefixed)))

\* lines 283-308: the for loop over the section-item elements, from the i-th
RECURSIVE CourseEntries(_, _, _, _, _)
CourseEntries(lis, i, url_base, prefixed, entries) ==
    IF i > Len(lis) THEN entries
    ELSE IF ~lis[i].play /\ ~HasDuration(lis[i])
    THEN CourseEntries(lis, i + 1, url_base, prefixed, entries)
    ELSE IF lis[i].href = None
    THEN CourseEntries(lis, i + 1, url_base, prefixed, entries)
    ELSE CourseEntries(lis, i + 1, url_base, prefixed,
                       Append(entries, EntryResult(lis[i], url_base, prefixed)))

\* TeachableCourseIE._real_extract(url), with what the site serves
CourseExtract(url, login_page, response, webpage) ==
    LET mobj == TeachableCourseIE_VALID_URL(url)
        site == mobj.site[1]
        lg == Login(logged_in["TeachableCourse"], HasLoginInfo(NetrcMachine(site)),
                    login_page, response)
        prefixed == url.pfx >= 1
        url_base == [pfx |-> 0, scheme |-> "https://", host |-> site, path |-> <<>>]
        seen == lg.err = NoError
    IN /\ mobj.ok
       /\ logged_in' = [logged_in EXCEPT !["TeachableCourse"] = lg.logged_in]
       /\ sign_in_fetches' = Bump(sign_in_fetches, site, lg.fetched)
       /\ login_posts' = Bump(login_posts, site, lg.posted)
       /\ authed' = IF lg.logged_in /\ ~logged_in["TeachableCourse"]
                    THEN authed \cup {site} ELSE authed
       /\ last' = [op |-> "course", ie |-> "TeachableCourse", url |-> url, site |-> site,
                   login |-> lg.outcome,
                   login_page |-> IF lg.fetched THEN Some(login_page) ELSE None,
                   response |-> IF lg.posted THEN Some(response) ELSE None,
                   fetched |-> IF seen THEN Some(StripPrefix(url)) ELSE None,
                   webpage |-> IF seen THEN Some(webpage) ELSE None,
                   err |-> lg.err,
                   result |-> IF ~seen THEN None
                              ELSE Some([id |-> mobj.id[1],
                                         title |-> IF webpage.course_title = None THEN None
                                                   ELSE Some(clean_html(webpage.course_title[1])),
                                         entries |-> CourseEntries(webpage.entries, 1, url_base,
                                                                   prefixed, <<>>)])]
       /\ UNCHANGED creds

\* the extractor lookup: both suitable() answers for one URL
Suitable(url) ==
    /\ last' = [op |-> "suitable", url |-> url,
                lecture |-> TeachableIE_suitable(url),
                course |-> TeachableCourseIE_suitable(url)]
    /\ UNCHANGED <<logged_in, creds, sign_in_fetches, login_posts, authed>>

\* ---------------------------------------------------------- specifications
\* _real_initialize has run on both instances; nothing was fetched yet
InitWith(stored) ==
    /\ logged_in = [ie \in IEs |-> FALSE]
    /\ creds = stored
    /\ sign_in_fetches = [s \in ModelSites |-> 0]
    /\ login_posts = [s \in ModelSites |-> 0]
    /\ authed = {}
    /\ last = [op |-> "none"]

NoCredentials == [m \in Machines |-> FALSE]

LectureUrls ==
    {[pfx |-> 0, scheme |-> "https://", host |-> KnownHost,
      path |-> <<"courses", "slug", "lectures", "42">>],
     [pfx |-> 1, scheme |-> "https://", host |-> OtherHost,
      path |-> <<"courses", "slug", "lectures", "7">>]}

CourseUrls ==
    {[pfx |-> 0, scheme |-> "https://", host |-> KnownHost,
      path |-> <<"courses", "enrolled", "42">>],
     [pfx |-> 1, scheme |-> "https://", host |-> OtherHost, path |-> <<"p", "slug">>]}

\* the pages served while the login state machine is explored
OpenLecture ==
    [container |-> Some([attachment_id |-> Some("att-1")]), locked |-> {},
     og_title |-> Some(<<"Overview">>), section_item |-> None, titles |-> <<>>]
LockedLecture ==
    [container |-> None, locked |-> {"id=lecture-locked"},
     og_title |-> Some(<<"Overview">>), section_item |-> None, titles |-> <<>>]
SmallCourse ==
    [entries |-> <<[play |-> TRUE, duration |-> None,
                    href |-> Some(Relative(<<"courses", "slug", "lectures", "42">>)),
                    name |-> Some(<<Blank, "Intro">>)]>>,
     course_title |-> Some(<<"The Course">>)]

AnyLoginPage == [logged |-> {}]
AnyResponse == [privacy |-> FALSE, logged |-> {}, flash |-> None]

\* calls of both resolvers in any order, over two sites
Init == \E stored \in [Machines -> BOOLEAN] : InitWith(stored)

WithinAttempts(ie, site, login_page) ==
    Login(logged_in[ie], HasLoginInfo(NetrcMachine(site)), login_page, AnyResponse).fetched
        => sign_in_fetches[site] < MaxAttempts

LectureCall ==
    \E url \in LectureUrls, login_page \in LoginPages, response \in Responses,
       webpage \in {OpenLecture, LockedLecture} :
        /\ WithinAttempts("Teachable", TeachableIE_VALID_URL(url).site[1], login_page)
        /\ LectureExtract(url, login_page, response, webpage)

CourseCall ==
    \E url \in CourseUrls, login_page \in LoginPages, response \in Responses :
        /\ WithinAttempts("TeachableCourse", TeachableCourseIE_VALID_URL(url).site[1],
                          login_page)
        /\ CourseExtract(url, login_page, response, SmallCourse)

Next == LectureCall \/ CourseCall

Spec == Init /\ [][Next]_vars

\* URL classification of one URL
InitAnonymous == InitWith(NoCredentials)

Classify == last.op = "none" /\ \E url \in Urls : Suitable(url)

SpecUrl == InitAnonymous /\ [][Classify]_vars

\* one anonymous lecture extraction over every lecture page
ResolveLecture ==
    /\ last.op = "none"
    /\ \E url \in LectureUrls, webpage \in LecturePages :
           LectureExtract(url, AnyLoginPage, AnyResponse, webpage)

SpecLecture == InitAnonymous /\ [][ResolveLecture]_vars

\* one anonymous course extraction over every course page
ResolveCourse ==
    /\ last.op = "none"
    /\ \E url \in CourseUrls, webpage \in CoursePages :
           CourseExtract(url, AnyLoginPage, AnyResponse, webpage)

SpecCourse == InitAnonymous /\ [][ResolveCourse]_vars

\* ------------------------------------------------------------------ claims
Called == last.op \in {"lecture", "course"}

\* C1 as stated: over any sequence of login calls, each site's sign-in page is
\* fetched at most once and the credential POST is sent at most once in total.
C1_AtMostOneAttemptInTotal ==
    \A s \in ModelSites : sign_in_fetches[s] <= 1 /\ login_posts[s] <= 1

\* C1 (amended): a login call made by a resolver whose own flag is already
\* set fetches no sign-in page and sends no credential POST.
C1_NoAttemptOnceMarked ==
    [][\A ie \in IEs :
          (logged_in[ie] /\ last'.op # "none" /\ last'.ie = ie)
              => (sign_in_fetches' = sign_in_fetches /\ login_posts' = login_posts)]_vars

\* a login call was skipped for a site that was attempted before
C1_Witness ==
    /\ Called
    /\ last.login = "skipped"
    /\ logged_in[last.ie]
    /\ sign_in_fetches[last.site] >= 1
    /\ HasLoginInfo(NetrcMachine(last.site))

\* C2: when every site has stored credentials, login(S) is skipped only if S's
\* own handshake marked the session authenticated, and every page fetch for S
\* is preceded by such a handshake for S.
C2_FetchPrecededByOwnLogin ==
    ((\A m \in Machines : creds[m]) /\ Called)
        => /\ (last.login = "skipped" => last.site \in authed)
           /\ (last.fetched # None => last.site \in authed)

\* C3: the two matchers never both accept a URL; a URL that fits both shapes
\* is a Lecture; the Course matcher accepts only URLs of the Course shape that
\* the Lecture matcher rejects.
C3_MutuallyExclusive ==
    last.op = "suitable"
        => /\ ~(last.lecture /\ last.course)
           /\ (TeachableIE_VALID_URL(last.url).ok /\ TeachableCourseIE_VALID_URL(last.url).ok
                  => last.lecture /\ ~last.course)
           /\ (last.course => TeachableCourseIE_VALID_URL(last.url).ok /\ ~last.lecture)
           /\ (TeachableCourseIE_VALID_URL(last.url).ok /\ ~last.lecture => last.course)

\* a URL of both shapes was classified
C3_Witness ==
    /\ last.op = "suitable"
    /\ TeachableIE_VALID_URL(last.url).ok
    /\ TeachableCourseIE_VALID_URL(last.url).ok
    /\ last.lecture
    /\ ~last.course

ErrKind(err) == IF err = None THEN "none" ELSE err[1].kind

\* C4: without a video container the lecture fails with LoginRequired when a
\* locked-content marker is present and with ExtractionFailed when none is,
\* the API is not called and nothing is returned; with a container neither
\* error is raised, whatever the markers.
C4_LockedOrFailed ==
    (last.op = "lecture" /\ last.webpage # None)
        => LET w == last.webpage[1]
           IN /\ (w.container = None
                     => /\ (w.locked # {} => ErrKind(last.err) = "LoginRequired")
                        /\ (w.locked = {} => ErrKind(last.err) = "ExtractionFailed")
                        /\ ~last.api_called
                        /\ last.result = None)
              /\ (w.container # None
                     => ErrKind(last.err) \notin {"LoginRequired", "ExtractionFailed"})

\* a locked page without a container was resolved
C4_Witness ==
    /\ last.op = "lecture"
    /\ last.webpage # None
    /\ last.webpage[1].container = None
    /\ last.webpage[1].locked # {}
    /\ ErrKind(last.err) = "LoginRequired"

\* C5: the POST response decides by strict priority: privacy prompt (error,
\* session not marked), then logged-in markers (success, session marked), then
\* flash error (InvalidCredentials with its text), then LoginFailed.
C5_ResponsePriority ==
    (Called /\ last.response # None)
        => LET r == last.response[1]
           IN IF r.privacy
              THEN last.err = Error("PrivacyPolicyBlock", <<>>) /\ ~logged_in[last.ie]
              ELSE IF r.logged # {}
              THEN last.login = "success" /\ logged_in[last.ie]
                   /\ ErrKind(last.err) \notin
                          {"PrivacyPolicyBlock", "InvalidCredentials", "LoginFailed"}
              ELSE IF r.flash # None
              THEN last.err = Error("InvalidCredentials", <<"Invalid email or password">>)
                   /\ ~logged_in[last.ie]
              ELSE last.err = Error("LoginFailed", <<>>) /\ ~logged_in[last.ie]

\* a response with the privacy prompt and logged-in markers was received
C5_Witness ==
    /\ Called
    /\ last.response # None
    /\ last.response[1].privacy
    /\ last.response[1].logged # {}
    /\ ErrKind(last.err) = "PrivacyPolicyBlock"
    /\ ~logged_in[last.ie]
\* the reference ref was made from the list entry li of the course of site
MadeFrom(ref, li, site) ==
    /\ li.href # None
    /\ ref.url.path = li.href[1].path
    /\ ref.url.host = IF li.href[1].host = <<>> THEN site ELSE li.href[1].host

\* refs holds exactly one reference per entry of lis whose index is in chosen,
\* in the order of lis
OnePerChosenEntry(refs, lis, chosen, site) ==
    /\ Len(refs) = Cardinality(chosen)
    /\ \A i \in chosen :
           MadeFrom(refs[Cardinality({q \in chosen : q <= i})], lis[i], site)

\* C6 as stated: one lecture reference per section-item entry that shows a
\* play icon or a duration pattern, none for the others, in document order.
C6_OnePerMarkedEntry ==
    (last.op = "course" /\ last.result # None)
        => LET lis == last.webpage[1].entries
               marked == {i \in 1..Len(lis) :
                             \/ lis[i].play
                             \/ /\ lis[i].duration # None
                                /\ lis[i].duration[1][1] >= 1
                                /\ lis[i].duration[1][2] >= 2}
           IN OnePerChosenEntry(last.result[1].entries, lis, marked, last.site)

\* C6 (amended): one lecture reference per section-item entry that shows a play
\* icon or a duration of one or two digits, a colon and two digits, and whose
\* anchor has an href; none for the others; in document order.
C6_OnePerMarkedEntryWithLink ==
    (last.op = "course" /\ last.result # None)
        => LET lis == last.webpage[1].entries
               listed == {i \in 1..Len(lis) :
                             /\ \/ lis[i].play
                                \/ /\ lis[i].duration # None
                                   /\ lis[i].duration[1][1] >= 1
                                   /\ lis[i].duration[1][2] >= 2
                             /\ lis[i].href # None}
           IN OnePerChosenEntry(last.result[1].entries, lis, listed, last.site)

\* three entries, the middle one without play icon and duration, two references
C6_Witness ==
    /\ last.op = "course"
    /\ last.result # None
    /\ Len(last.webpage[1].entries) = 3
    /\ ~last.webpage[1].entries[2].play
    /\ last.webpage[1].entries[2].duration = None
    /\ Len(last.result[1].entries) = 2
    /\ last.result[1].entries[1].id = Some("42")
    /\ last.result[1].entries[2].id = Some("7")

\* C7 as stated: with n non-empty section titles and chapterNumber k >= 0,
\* chapter resolution raises nothing, chapterTitle is the k-th title when
\* 1 <= k <= n and null otherwise; without the list item both are null.
C7_ChapterByNumber ==
    (last.op = "lecture" /\ last.webpage # None /\ last.api_called)
        => LET w == last.webpage[1]
               n == Len(w.titles)
           IN /\ (w.section_item = None
                     => /\ last.result # None
                        /\ last.result[1].chapter = None
                        /\ last.result[1].chapter_number = None)
              /\ ((/\ w.section_item # None
                   /\ w.section_item[1].position # None
                   /\ \A i \in 1..n : clean_html(w.titles[i]) # <<>>)
                     => LET k == DigitsValue(w.section_item[1].position[1])
                        IN /\ last.err = NoError
                           /\ last.result # None
                           /\ last.result[1].chapter_number = Some(k)
                           /\ last.result[1].chapter =
                                  IF 1 <= k /\ k <= n THEN Some(clean_html(w.titles[k]))
                                  ELSE None)

\* the section titles the page shows, cleaned
Cleaned(titles) == [i \in 1..Len(titles) |-> clean_html(titles[i])]

\* the positions of the empty section titles
Empties(titles) == {i \in 1..Len(titles) : clean_html(titles[i]) = <<>>}

\* the lecture page was parsed up to the section titles, with chapterNumber k
ChapterRead(k) ==
    /\ last.op = "lecture"
    /\ last.webpage # None
    /\ last.api_called
    /\ last.webpage[1].section_item # None
    /\ last.webpage[1].section_item[1].position # None
    /\ DigitsValue(last.webpage[1].section_item[1].position[1]) = k

\* C8 as stated: the surviving list is the run of non-empty titles after the
\* last empty title, and chapterTitle is looked up in it by chapterNumber.
C8_RunAfterLastEmpty ==
    \A k \in 1..MaxPos :
        ChapterRead(k)
            => LET t == Cleaned(last.webpage[1].titles)
                   e == Empties(last.webpage[1].titles)
                   from == IF e = {} THEN 0 ELSE CHOOSE i \in e : \A j \in e : j <= i
                   run == [j \in 1..(Len(t) - from) |-> t[from + j]]
               IN /\ last.sections = run
                  /\ (1 <= k /\ k <= Len(run)
                         => last.result # None /\ last.result[1].chapter = Some(run[k]))

\* C8 (amended): an empty section title discards the titles collected so far
\* and ends the scan, so the surviving list is empty when any title is empty
\* and is the whole list otherwise; with an empty title chapterTitle is null
\* for every chapterNumber >= 1.
C8_EmptyTitleDiscardsAll ==
    \A k \in 0..MaxPos :
        ChapterRead(k)
            => LET t == Cleaned(last.webpage[1].titles)
                   e == Empties(last.webpage[1].titles)
               IN /\ (e # {} => last.sections = <<>>)
                  /\ (e # {} /\ k >= 1
                         => last.result # None /\ last.result[1].chapter = None)
                  /\ (e = {} => last.sections = t)

\* titles Welcome, (empty), Advanced with chapterNumber 3
C8_Witness ==
    /\ ChapterRead(3)
    /\ last.webpage[1].titles = <<<<"Welcome">>, <<Blank, "<br>">>, <<"Advanced">>>>
    /\ last.sections = <<>>
    /\ last.result # None
    /\ last.result[1].chapter = None

\* C9: a prefixed course URL gives lecture references that carry the prefix
\* exactly once, an unprefixed one gives none that is prefixed, and the course
\* page is fetched from the URL without the prefix.
C9_PrefixRoundTrip ==
    (last.op = "course" /\ last.result # None)
        => /\ \A j \in 1..Len(last.result[1].entries) :
                  last.result[1].entries[j].url.pfx = last.url.pfx
           /\ last.url.pfx \in {0, 1}
           /\ last.fetched = Some([last.url EXCEPT !.pfx = 0])

\* a prefixed course URL gave two references
C9_Witness ==
    /\ last.op = "course"
    /\ last.url.pfx = 1
    /\ last.result # None
    /\ Len(last.result[1].entries) >= 2
    /\ last.result[1].entries[1].url.pfx = 1
    /\ last.fetched # None
    /\ last.fetched[1].pfx = 0

\* C10: a flag never goes from true to false (so it is set at most once); it
\* is set only by a login call of its own resolver that saw logged-in markers
\* on the sign-in page or in the POST response; a login call that finds no
\* credentials or ends in an error leaves every flag as it was.
C10_FlagSetOnceByMarkers ==
    [][/\ \A ie \in IEs :
              /\ (logged_in[ie] => logged_in'[ie])
              /\ (~logged_in[ie] /\ logged_in'[ie]
                     => /\ last'.op # "none"
                        /\ last'.ie = ie
                        /\ \/ /\ last'.response = None
                              /\ last'.login_page # None
                              /\ last'.login_page[1].logged # {}
                           \/ /\ last'.response # None
                              /\ last'.response[1].logged # {})
       /\ (last'.op # "none"
           /\ last'.login \in {"anonymous", "privacy", "invalid", "failed"}
              => logged_in' = logged_in)]_vars

\* a login call failed while the other resolver's flag was set
C10_Witness ==
    /\ Called
    /\ last.login \in {"privacy", "invalid", "failed"}
    /\ ~logged_in[last.ie]
    /\ \E ie \in IEs : logged_in[ie]
====
